---- MODULE Spec2Model ----
(***************************************************************************)
(* Model of aeacus' crypto.go: the obfuscation pipeline                    *)
(*   obfuscateData  : zlib -> xor(key) -> AES-GCM seal -> xor(tossKey) -> hex *)
(*   deobfuscateData: hex  -> xor(tossKey) -> AES-GCM open -> xor(key) -> zlib *)
(*                                                                         *)
(* Strings are sequences of bytes (0..255).  Every function of crypto.go   *)
(* is an operator that returns a record [val, err, trace]: the value and   *)
(* error the Go function returns, and the pipeline stages it invoked.      *)
(* err = "panic" stands for a Go run-time panic (no value is returned).    *)
(*                                                                         *)
(* Library code is modelled by its contract:                               *)
(*  - compress/zlib: the real container (header 78 9c, Adler-32 trailer)   *)
(*    around a deflate stream of stored blocks, closed, as Go's writer     *)
(*    does, by an empty final stored block 01 00 00 ff ff; the reader      *)
(*    produces output progressively and reports "unexpected EOF" on a      *)
(*    truncated stream, as compress/flate does;                            *)
(*  - AES-GCM: ciphertext = plaintext XOR keystream(key, nonce), followed  *)
(*    by a 16-byte tag over nonce and ciphertext; Open verifies the tag;   *)
(*  - SHA-256: a table of the two digests the program computes.            *)
(***************************************************************************)
EXTENDS Integers, Sequences, FiniteSets, TLC

----------------------------------------------------------------------------
(* Bounds of the model *)

\* longest plaintext built from Alphabet
MaxLen == 1
\* number of distinct values the nonce source can produce
NumNonces == 2

----------------------------------------------------------------------------
(* Bytes and byte strings *)

Byte == 0..255

RECURSIVE XorByte(_, _)
XorByte(a, b) ==
    IF a = 0 THEN b
    ELSE IF b = 0 THEN a
    ELSE ((a + b) % 2) + 2 * XorByte(a \div 2, b \div 2)

RECURSIVE SumSeq(_)
SumSeq(s) == IF s = <<>> THEN 0 ELSE Head(s) + SumSeq(Tail(s))

Take(s, n) == SubSeq(s, 1, n)
Drop(s, n) == SubSeq(s, n + 1, Len(s))

\* n copies of byte b
Repeat(b, n) == [i \in 1..n |-> b]

\* utility: xor(key, plaintext), output[i] = plaintext[i] ^ key[i % len(key)]
xor(key, data) ==
    [i \in 1..Len(data) |-> XorByte(key[((i - 1) % Len(key)) + 1], data[i])]

----------------------------------------------------------------------------
(* Hex codec (utility hexEncode / hexDecode, encoding/hex) *)

HexDigit(n) == IF n < 10 THEN 48 + n ELSE 87 + n

HexVal(c) ==
    IF c \in 48..57 THEN c - 48
    ELSE IF c \in 97..102 THEN c - 87
    ELSE IF c \in 65..70 THEN c - 55
    ELSE -1

hexEncode(s) ==
    [i \in 1..(2 * Len(s)) |->
        HexDigit(IF i % 2 = 1 THEN s[(i + 1) \div 2] \div 16
                              ELSE s[i \div 2] % 16)]

hexDecode(s) ==
    IF Len(s) % 2 = 1 \/ \E i \in 1..Len(s) : HexVal(s[i]) = -1
    THEN [val |-> <<>>, err |-> "hex"]
    ELSE [val |-> [i \in 1..(Len(s) \div 2) |->
                      16 * HexVal(s[2 * i - 1]) + HexVal(s[2 * i])],
          err |-> "nil"]

----------------------------------------------------------------------------
(* Secret material *)

\* "HASH_HERE"
HASH_HERE == <<72, 65, 83, 72, 95, 72, 69, 82, 69>>

\* A generated secret of 64 characters ("make release"): 'A' everywhere but
\* a 'B' at offset 16.
GenTail == [i \in 1..64 |-> IF i = 17 THEN 66 ELSE 65]

\* A generated secret of 64 characters that starts with 'X'.
GenLead == [i \in 1..64 |-> IF i = 1 THEN 88 ELSE 65]

\* the values randomString takes: the placeholder of the source and the
\* strings a build generates in its place
RandomStrings == {HASH_HERE, GenTail, GenLead}

byteKey == <<1>>

randomBytes == <<1>>

\* sha256.Sum of the two strings the program hashes
Sha256(s) ==
    CASE s = HASH_HERE ->
           <<219, 97, 91, 159, 227, 152, 15, 78, 133, 142, 18, 115, 254, 195,
             16, 66, 63, 30, 86, 182, 169, 124, 159, 119, 235, 47, 83, 209,
             8, 35, 217, 61>>
      [] s = byteKey ->
           <<75, 245, 18, 47, 52, 69, 84, 197, 59, 222, 46, 187, 140, 210,
             183, 227, 209, 96, 10, 214, 49, 195, 133, 165, 215, 204, 226,
             60, 119, 133, 69, 154>>

\* the key of the inner XOR: the digest of a short randomString, a long one
\* verbatim
deriveKey(rs) == IF Len(rs) < 64 THEN Sha256(rs) ELSE rs

tossKey == randomBytes

----------------------------------------------------------------------------
(* compress/zlib *)

AdlerMod == 65521

RECURSIVE AdlerAB(_, _, _)
AdlerAB(s, a, b) ==
    IF s = <<>> THEN <<a, b>>
    ELSE LET a2 == (a + Head(s)) % AdlerMod
         IN  AdlerAB(Tail(s), a2, (b + a2) % AdlerMod)

\* the four big-endian bytes of the Adler-32 checksum
Adler32(s) ==
    LET ab == AdlerAB(s, 1, 0)
    IN  <<ab[2] \div 256, ab[2] % 256, ab[1] \div 256, ab[1] % 256>>

ZlibHeader == <<120, 156>>

\* a stored block: header byte, LEN, NLEN (little endian), data
StoredBlock(final, data) ==
    <<final, Len(data) % 256, Len(data) \div 256,
      (65535 - Len(data)) % 256, (65535 - Len(data)) \div 256>> \o data

\* zlib.NewWriter; Write(p); Close(): the data block, the empty final block
\* Close writes, the checksum
Deflate(p) ==
    (IF p = <<>> THEN <<>> ELSE StoredBlock(0, p)) \o StoredBlock(1, <<>>)

ZlibCompress(p) == ZlibHeader \o Deflate(p) \o Adler32(p)

\* zlib.NewReader: the two header bytes are read and checked
ZlibHeaderOk(s) ==
    /\ Len(s) >= 2
    /\ s[1] % 16 = 8
    /\ s[1] \div 16 <= 7
    /\ (256 * s[1] + s[2]) % 31 = 0
    /\ (s[2] \div 32) % 2 = 0

\* flate's reader from position pos of s with out already produced:
\* [out, err, pos]; err is "EOF" at the end of the final block
RECURSIVE Inflate(_, _, _)
Inflate(s, pos, out) ==
    IF pos > Len(s) THEN [out |-> out, err |-> "unexpected EOF", pos |-> pos]
    ELSE
      LET final == s[pos] % 2
          btype == (s[pos] \div 2) % 4
      IN
      IF btype = 3 THEN [out |-> out, err |-> "corrupt", pos |-> pos]
      ELSE IF btype # 0 THEN [out |-> out, err |-> "huffman", pos |-> pos]
      ELSE IF pos + 4 > Len(s)
           THEN [out |-> out, err |-> "unexpected EOF", pos |-> pos]
      ELSE
        LET n    == s[pos + 1] + 256 * s[pos + 2]
            nn   == s[pos + 3] + 256 * s[pos + 4]
            have == Len(s) - (pos + 4)
        IN
        IF nn # 65535 - n THEN [out |-> out, err |-> "corrupt", pos |-> pos]
        ELSE IF have < n
             THEN [out |-> out \o SubSeq(s, pos + 5, Len(s)),
                   err |-> "unexpected EOF", pos |-> Len(s) + 1]
        ELSE IF final = 1
             THEN [out |-> out \o SubSeq(s, pos + 5, pos + 4 + n),
                   err |-> "EOF", pos |-> pos + 5 + n]
        ELSE Inflate(s, pos + 5 + n, out \o SubSeq(s, pos + 5, pos + 4 + n))

\* io.Copy(dataBuffer, reader) on a stream whose header was accepted:
\* [out |-> the bytes copied, err |-> "nil" or the error Copy returns]
ZlibCopy(s) ==
    LET r == Inflate(s, 3, <<>>)
    IN  IF r.err # "EOF" THEN [out |-> r.out, err |-> r.err]
        ELSE IF Len(s) - r.pos + 1 < 4
             THEN [out |-> r.out, err |-> "unexpected EOF"]
        ELSE IF SubSeq(s, r.pos, r.pos + 3) # Adler32(r.out)
             THEN [out |-> r.out, err |-> "checksum"]
        ELSE [out |-> r.out, err |-> "nil"]

----------------------------------------------------------------------------
(* strings.TrimSpace *)

AsciiSpace == {9, 10, 11, 12, 13, 32}

\* UTF-8 encodings of the non-ASCII runes with unicode.IsSpace
Space2 == {<<194, 133>>, <<194, 160>>}
Space3 == {<<225, 154, 128>>, <<226, 128, 168>>, <<226, 128, 169>>,
           <<226, 128, 175>>, <<226, 129, 159>>, <<227, 128, 128>>}
             \cup {<<226, 128, b>> : b \in 128..138}

\* length of the space rune s starts with, 0 if it starts with none
LeadSpace(s) ==
    IF s = <<>> THEN 0
    ELSE IF s[1] \in AsciiSpace THEN 1
    ELSE IF Len(s) >= 2 /\ Take(s, 2) \in Space2 THEN 2
    ELSE IF Len(s) >= 3 /\ Take(s, 3) \in Space3 THEN 3
    ELSE 0

\* length of the space rune s ends with, 0 if it ends with none
TrailSpace(s) ==
    IF s = <<>> THEN 0
    ELSE IF s[Len(s)] \in AsciiSpace THEN 1
    ELSE IF Len(s) >= 2 /\ Drop(s, Len(s) - 2) \in Space2 THEN 2
    ELSE IF Len(s) >= 3 /\ Drop(s, Len(s) - 3) \in Space3 THEN 3
    ELSE 0

RECURSIVE TrimLeft(_)
TrimLeft(s) == IF LeadSpace(s) = 0 THEN s ELSE TrimLeft(Drop(s, LeadSpace(s)))

RECURSIVE TrimRight(_)
TrimRight(s) ==
    IF TrailSpace(s) = 0 THEN s ELSE TrimRight(Take(s, Len(s) - TrailSpace(s)))

TrimSpace(s) == TrimRight(TrimLeft(s))

----------------------------------------------------------------------------
(* crypto/cipher: AES-GCM *)

BlockSize == 16
NonceSize == 12
TagSize == 16

Keystream(key, nonce, i) ==
    (key[((i - 1) % Len(key)) + 1] + nonce[((i - 1) % NonceSize) + 1] + 7 * i)
        % 256

GcmTag(key, nonce, ct) ==
    LET h == SumSeq(nonce) + SumSeq(ct) + Len(ct)
    IN  [j \in 1..TagSize |-> (h + key[j] + j) % 256]

\* aesgcm.Seal(nil, nonce, plaintext, nil)
GcmSeal(key, nonce, pt) ==
    LET ct == [i \in 1..Len(pt) |-> XorByte(pt[i], Keystream(key, nonce, i))]
    IN  ct \o GcmTag(key, nonce, ct)

\* aesgcm.Open(nil, nonce, ciphertext, nil)
GcmOpen(key, nonce, sealed) ==
    IF Len(sealed) < TagSize THEN [val |-> <<>>, err |-> "auth"]
    ELSE LET ct  == Take(sealed, Len(sealed) - TagSize)
             tag == Drop(sealed, Len(sealed) - TagSize)
         IN  IF tag # GcmTag(key, nonce, ct) THEN [val |-> <<>>, err |-> "auth"]
             ELSE [val |-> [i \in 1..Len(ct) |->
                               XorByte(ct[i], Keystream(key, nonce, i))],
                   err |-> "nil"]

----------------------------------------------------------------------------
(* crypto.go *)

\* what the environment makes fail during one call of obfuscateData:
\* nothing, writer.Write of the zlib writer, or io.ReadFull(rand.Reader)
Faults == {"none", "writer", "rand"}

\* the result of a stage that did not run
NotRun == [out |-> <<>>, err |-> "not run"]

\* encryptString(password, plainText): [val, trace]
encryptString(password, plainText, nonce, fault) ==
    LET key    == Sha256(password)
        padded == plainText
                    \o Repeat(32, BlockSize - (Len(plainText) % BlockSize))
    IN  IF Len(padded) % BlockSize # 0
        THEN [val |-> <<>>, trace |-> <<"sha256">>]
        ELSE IF fault = "rand"
        THEN [val |-> <<>>, trace |-> <<"sha256", "rand">>]
        ELSE [val |-> nonce \o GcmSeal(key, nonce, padded),
              trace |-> <<"sha256", "rand", "seal">>]

\* encryptConfig(plainText): [val, err, trace]
encryptConfig(plainText, rs, nonce, fault) ==
    LET key == deriveKey(rs)
    IN  IF fault = "writer"
        THEN [val |-> <<>>, err |-> "writer",
              trace |-> <<"deriveKey", "compress">>]
        ELSE LET xorConfig == xor(key, ZlibCompress(plainText))
                 es == encryptString(byteKey, xorConfig, nonce, fault)
             IN  [val |-> es.val, err |-> "nil",
                  trace |-> <<"deriveKey", "compress", "xor">> \o es.trace]

\* decryptString(password, ciphertext): [val, panic, open, trace];
\* open is what aesgcm.Open returned: "ok", "auth", or "not run"
decryptString(password, ciphertext) ==
    LET key == Sha256(password)
    IN  IF Len(ciphertext) < NonceSize
        THEN [val |-> <<>>, panic |-> TRUE, open |-> "not run",
              trace |-> <<"sha256">>]
        ELSE LET iv == Take(ciphertext, NonceSize)
                 o  == GcmOpen(key, iv, Drop(ciphertext, NonceSize))
             IN  IF o.err # "nil"
                 THEN [val |-> <<>>, panic |-> FALSE, open |-> "auth",
                       trace |-> <<"sha256", "open">>]
                 ELSE [val |-> TrimSpace(o.val), panic |-> FALSE,
                       open |-> "ok", trace |-> <<"sha256", "open">>]

\* decryptConfig with "unexpected EOF" treated like any other copy error
decryptConfig_eofFatal(cipherText, rs) ==
    LET key  == deriveKey(rs)
        ds   == decryptString(byteKey, cipherText)
        data == xor(key, ds.val)
        c    == ZlibCopy(data)
        t1   == <<"deriveKey">> \o ds.trace
        t2   == t1 \o <<"xor", "zlib.NewReader">>
        t3   == t2 \o <<"inflate">>
    IN  IF ds.panic
        THEN [val |-> <<>>, err |-> "panic", open |-> ds.open,
              copy |-> NotRun, trace |-> t1]
        ELSE IF ~ZlibHeaderOk(data)
        THEN [val |-> <<>>, err |-> "zlib reader", open |-> ds.open,
              copy |-> NotRun, trace |-> t2]
        ELSE IF c.err # "nil"
        THEN [val |-> <<>>, err |-> "inflate", open |-> ds.open,
              copy |-> c, trace |-> t3]
        ELSE IF c.out = <<>>
        THEN [val |-> <<>>, err |-> "empty", open |-> ds.open,
              copy |-> c, trace |-> t3]
        ELSE [val |-> c.out, err |-> "nil", open |-> ds.open,
              copy |-> c, trace |-> t3]

\* decryptConfig without the sanity check on an empty result
decryptConfig_noEmptyCheck(cipherText, rs) ==
    LET key  == deriveKey(rs)
        ds   == decryptString(byteKey, cipherText)
        data == xor(key, ds.val)
        c    == ZlibCopy(data)
        t1   == <<"deriveKey">> \o ds.trace
        t2   == t1 \o <<"xor", "zlib.NewReader">>
        t3   == t2 \o <<"inflate">>
    IN  IF ds.panic
        THEN [val |-> <<>>, err |-> "panic", open |-> ds.open,
              copy |-> NotRun, trace |-> t1]
        ELSE IF ~ZlibHeaderOk(data)
        THEN [val |-> <<>>, err |-> "zlib reader", open |-> ds.open,
              copy |-> NotRun, trace |-> t2]
        ELSE IF c.err \notin {"nil", "unexpected EOF"}
        THEN [val |-> <<>>, err |-> "inflate", open |-> ds.open,
              copy |-> c, trace |-> t3]
        ELSE [val |-> c.out, err |-> "nil", open |-> ds.open,
              copy |-> c, trace |-> t3]

\* decryptConfig returning the bytes in dataBuffer along with a copy error
decryptConfig_partial(cipherText, rs) ==
    LET key  == deriveKey(rs)
        ds   == decryptString(byteKey, cipherText)
        data == xor(key, ds.val)
        c    == ZlibCopy(data)
        t1   == <<"deriveKey">> \o ds.trace
        t2   == t1 \o <<"xor", "zlib.NewReader">>
        t3   == t2 \o <<"inflate">>
    IN  IF ds.panic
        THEN [val |-> <<>>, err |-> "panic", open |-> ds.open,
              copy |-> NotRun, trace |-> t1]
        ELSE IF ~ZlibHeaderOk(data)
        THEN [val |-> <<>>, err |-> "zlib reader", open |-> ds.open,
              copy |-> NotRun, trace |-> t2]
        ELSE IF c.err \notin {"nil", "unexpected EOF"}
        THEN [val |-> c.out, err |-> "inflate", open |-> ds.open,
              copy |-> c, trace |-> t3]
        ELSE IF c.out = <<>>
        THEN [val |-> <<>>, err |-> "empty", open |-> ds.open,
              copy |-> c, trace |-> t3]
        ELSE [val |-> c.out, err |-> "nil", open |-> ds.open,
              copy |-> c, trace |-> t3]

\* decryptConfig(cipherText): [val, err, open, copy, trace]; copy is what
\* io.Copy produced: the bytes in dataBuffer and the error it returned
decryptConfig(cipherText, rs) ==
    LET key  == deriveKey(rs)
        ds   == decryptString(byteKey, cipherText)
        data == xor(key, ds.val)
        c    == ZlibCopy(data)
        t1   == <<"deriveKey">> \o ds.trace
        t2   == t1 \o <<"xor", "zlib.NewReader">>
        t3   == t2 \o <<"inflate">>
    IN  IF ds.panic
        THEN [val |-> <<>>, err |-> "panic", open |-> ds.open,
              copy |-> NotRun, trace |-> t1]
        ELSE IF ~ZlibHeaderOk(data)
        THEN [val |-> <<>>, err |-> "zlib reader", open |-> ds.open,
              copy |-> NotRun, trace |-> t2]
        ELSE IF c.err \notin {"nil", "unexpected EOF"}
        THEN [val |-> <<>>, err |-> "inflate", open |-> ds.open,
              copy |-> c, trace |-> t3]
        ELSE IF c.out = <<>>
        THEN [val |-> <<>>, err |-> "empty", open |-> ds.open,
              copy |-> c, trace |-> t3]
        ELSE [val |-> c.out, err |-> "nil", open |-> ds.open,
              copy |-> c, trace |-> t3]

\* obfuscateData without the early return on an empty datum
obfuscateData_noEmptyCheck(datum, rs, nonce, fault) ==
    LET ec == encryptConfig(datum, rs, nonce, fault)
    IN  IF ec.err = "nil"
        THEN [val |-> hexEncode(xor(tossKey, ec.val)), err |-> "nil",
              trace |-> ec.trace \o <<"xor", "hexEncode">>]
        ELSE [val |-> ec.val, err |-> ec.err, trace |-> ec.trace]

\* obfuscateData(datum): [val, err, trace], val the caller's *datum
obfuscateData(datum, rs, nonce, fault) ==
    IF datum = <<>> THEN [val |-> datum, err |-> "nil", trace |-> <<>>]
    ELSE LET ec == encryptConfig(datum, rs, nonce, fault)
         IN  IF ec.err = "nil"
             THEN [val |-> hexEncode(xor(tossKey, ec.val)), err |-> "nil",
                   trace |-> ec.trace \o <<"xor", "hexEncode">>]
             ELSE [val |-> ec.val, err |-> ec.err, trace |-> ec.trace]

\* deobfuscateData(datum): [val, err, open, copy, trace], val the caller's
\* *datum
deobfuscateData(datum, rs) ==
    IF datum = <<>>
    THEN [val |-> datum, err |-> "nil", open |-> "not run", copy |-> NotRun,
          trace |-> <<>>]
    ELSE LET hd == hexDecode(datum)
             x  == xor(tossKey, hd.val)
             dc == decryptConfig(x, rs)
         IN  IF hd.err # "nil"
             THEN [val |-> hd.val, err |-> "hex", open |-> "not run",
                   copy |-> NotRun, trace |-> <<"hexDecode">>]
             ELSE [val |-> IF dc.err = "panic" THEN x ELSE dc.val,
                   err |-> dc.err, open |-> dc.open, copy |-> dc.copy,
                   trace |-> <<"hexDecode", "xor">> \o dc.trace]

----------------------------------------------------------------------------
(* Inputs *)

Alphabet == {97, 32}

RECURSIVE SeqsUpTo(_, _)
SeqsUpTo(A, n) ==
    IF n = 0 THEN {<<>>}
    ELSE LET shorter == SeqsUpTo(A, n - 1)
         IN  shorter \cup {Append(s, a) : s \in shorter, a \in A}

\* a value whose compressed form fills whole 16-byte blocks
Block16 == [i \in 1..16 |-> 96 + i]

\* the config values: short texts (with the empty one), a non-ASCII one
\* ("e" with acute accent), one on the block boundary
TextValues == SeqsUpTo(Alphabet, MaxLen) \cup {<<195, 169>>, Block16}

\* the values rand.Reader yields
Nonces == {Repeat(k, NonceSize) : k \in 1..NumNonces}

\* the artifact whose envelope seals the masked stream: what the stages
\* after compression make of it
ArtifactOf(stream, rs) ==
    hexEncode(xor(tossKey,
        encryptString(byteKey, xor(deriveKey(rs), stream),
                      Repeat(0, NonceSize), "none").val))

\* compressed streams other than those of TextValues: header only, the empty
\* text, a text cut inside its data, a wrong checksum, a wrong block length,
\* no zlib header
ForeignStreams ==
    { ZlibHeader,
      ZlibCompress(<<>>),
      Take(ZlibCompress(<<97, 98>>), 8),
      ZlibHeader \o Deflate(<<97>>) \o <<0, 0, 0, 0>>,
      ZlibHeader \o <<0, 1, 0, 0, 0, 97>>,
      <<0, 0>> }

\* artifacts whose envelope is too short for a nonce
ShortArtifacts == {hexEncode(Repeat(b, k)) : b \in {0, 255}, k \in 1..11}

\* artifacts that are not hex, or hold no sealed envelope
RawArtifacts ==
    { <<48>>, <<122, 122>>, hexEncode(Repeat(0, 12)), hexEncode(Repeat(0, 40)) }

\* what a stored field can hold besides the artifacts this process wrote
ForeignArtifacts(rs) ==
    {ArtifactOf(st, rs) : st \in ForeignStreams}
        \cup ShortArtifacts \cup RawArtifacts

\* the bytes a character c of an artifact is changed to: another hex digit,
\* a character that is no hex digit ('g'), the same digit in upper case
Replacements(c) ==
    ({IF c = 48 THEN 102 ELSE 48, 103}
        \cup {IF c \in 97..102 THEN c - 32 ELSE c}) \ {c}

----------------------------------------------------------------------------
(* The caller: a config field written through obfuscateData and read back  *)
(* through deobfuscateData                                                 *)

VARIABLES
    randomString,   \* the build's secret string
    pc,             \* "idle", "plain", "obf", "stored", "deobf"
    datum,          \* the caller's field (*datum)
    err,            \* the error of the last call
    trace,          \* the stages the last call invoked
    arg,            \* *datum when the last call was made
    orig,           \* the plaintext the field was set to
    src,            \* where the artifact in datum comes from
    fault,          \* what failed in the last obfuscateData
    open,           \* what aesgcm.Open returned in the last call
    copy            \* what io.Copy produced in the last call

vars == <<randomString, pc, datum, err, trace, arg, orig, src, fault, open,
          copy>>

Init ==
    /\ randomString \in RandomStrings
    /\ pc = "idle"
    /\ datum = <<>>
    /\ err = "nil"
    /\ trace = <<>>
    /\ arg = <<>>
    /\ orig = <<>>
    /\ src = "none"
    /\ fault = "none"
    /\ open = "not run"
    /\ copy = NotRun

\* the caller sets the field to a config value
SetValue(v) ==
    /\ pc = "idle"
    /\ pc' = "plain"
    /\ datum' = v
    /\ orig' = v
    /\ src' = "own"
    /\ UNCHANGED <<randomString, err, trace, arg, fault, open, copy>>

\* obfuscateData(&datum)
Obfuscate(nonce, f) ==
    /\ pc = "plain"
    /\ LET r == obfuscateData(datum, randomString, nonce, f)
       IN  /\ datum' = r.val
           /\ err' = r.err
           /\ trace' = r.trace
    /\ arg' = datum
    /\ fault' = f
    /\ pc' = "obf"
    /\ UNCHANGED <<randomString, orig, src, open, copy>>

\* one character of the stored artifact is changed
Tamper(i, c) ==
    /\ pc = "obf"
    /\ err = "nil"
    /\ datum' = [datum EXCEPT ![i] = c]
    /\ src' = "tampered"
    /\ pc' = "stored"
    /\ UNCHANGED <<randomString, err, trace, arg, orig, fault, open, copy>>

\* the artifact is stored and read back unchanged
Store ==
    /\ pc = "obf"
    /\ err = "nil"
    /\ pc' = "stored"
    /\ UNCHANGED <<randomString, datum, err, trace, arg, orig, src, fault,
                   open, copy>>

\* the field is read from a store this process did not write
ReadForeign(a) ==
    /\ pc = "idle"
    /\ pc' = "stored"
    /\ datum' = a
    /\ src' = "foreign"
    /\ UNCHANGED <<randomString, err, trace, arg, orig, fault, open, copy>>

\* deobfuscateData(&datum)
Deobfuscate ==
    /\ pc = "stored"
    /\ LET r == deobfuscateData(datum, randomString)
       IN  /\ datum' = r.val
           /\ err' = r.err
           /\ trace' = r.trace
           /\ open' = r.open
           /\ copy' = r.copy
    /\ arg' = datum
    /\ pc' = "deobf"
    /\ UNCHANGED <<randomString, orig, src, fault>>

\* the caller is done with the field
Done ==
    /\ pc \in {"obf", "deobf"}
    /\ pc' = "idle"
    /\ datum' = <<>>
    /\ err' = "nil"
    /\ trace' = <<>>
    /\ arg' = <<>>
    /\ orig' = <<>>
    /\ src' = "none"
    /\ fault' = "none"
    /\ open' = "not run"
    /\ copy' = NotRun
    /\ UNCHANGED randomString

Next ==
    \/ \E v \in TextValues : SetValue(v)
    \/ \E n \in Nonces, f \in Faults : Obfuscate(n, f)
    \/ \E i \in 1..Len(datum) : \E c \in Replacements(datum[i]) : Tamper(i, c)
    \/ Store
    \/ \E a \in ForeignArtifacts(randomString) : ReadForeign(a)
    \/ Deobfuscate
    \/ Done

Spec == Init /\ [][Next]_vars

----------------------------------------------------------------------------
(* Properties *)

Range(s) == {s[i] : i \in 1..Len(s)}

\* the last call was obfuscateData / deobfuscateData
Obfuscated == pc = "obf"
Deobfuscated == pc = "deobf"

\* the errors deobfuscateData returns from the decryptConfig stage
DecryptErrors == {"zlib reader", "inflate", "empty"}

C2_TamperDetected ==
    (Deobfuscated /\ src = "tampered")
        => (err = "auth" /\ ~(err = "nil" /\ datum # orig))

\* C3: when a stage of obfuscateData fails, obfuscateData returns a non-nil
\* error and no later stage (through to the hex encoding) runs.
C3_ShortCircuit ==
    (Obfuscated /\ arg # <<>> /\ fault # "none")
        => (err # "nil" /\ "hexEncode" \notin Range(trace))

\* C4: when aesgcm.Open fails authentication, the failure is reported as an
\* error of its own, and the stages after open (the XOR with the secret key,
\* the zlib reader) do not run.
C4_AuthFailureExplicit ==
    (Deobfuscated /\ open = "auth")
        => (/\ err \notin ({"nil", "panic", "hex"} \cup DecryptErrors)
            /\ trace[Len(trace)] = "open")

\* C5: obfuscateData and deobfuscateData on the empty string return nil,
\* leave the empty string and invoke no stage.
C5_IdentityOnEmpty ==
    ((Obfuscated \/ Deobfuscated) /\ arg = <<>>)
        => (err = "nil" /\ datum = <<>> /\ trace = <<>>)

C5_Witness ==
    /\ Deobfuscated
    /\ src = "own"
    /\ orig = <<>>
    /\ arg = <<>>
    /\ datum = <<>>
    /\ trace = <<>>

\* C7 (as stated): a copy that ends with "unexpected EOF" makes decryptConfig
\* succeed with the bytes copied; a copy that ends with another error makes
\* it return an error and no value.
C7_EofAlwaysSuccess ==
    Deobfuscated =>
        /\ copy.err = "unexpected EOF" => (err = "nil" /\ datum = copy.out)
        /\ copy.err \notin {"nil", "unexpected EOF", "not run"}
              => (err = "inflate" /\ datum = <<>>)

\* C7 (amended): a copy that ends with "unexpected EOF" makes decryptConfig
\* succeed with the bytes copied when at least one byte was copied, and
\* return the "decrypted config is empty" error and no value when none was;
\* a copy that ends with another error makes it return an error and no value.
C7_EofSuccessUnlessEmpty ==
    Deobfuscated =>
        /\ (copy.err = "unexpected EOF" /\ copy.out # <<>>)
              => (err = "nil" /\ datum = copy.out)
        /\ (copy.err = "unexpected EOF" /\ copy.out = <<>>)
              => (err = "empty" /\ datum = <<>>)
        /\ copy.err \notin {"nil", "unexpected EOF", "not run"}
              => (err = "inflate" /\ datum = <<>>)

C7_Witness ==
    /\ Deobfuscated
    /\ copy.err = "unexpected EOF"
    /\ copy.out # <<>>
    /\ err = "nil"
    /\ datum = copy.out

\* C8: when the decompressed output is empty deobfuscateData returns an
\* error, so a successful deobfuscateData of a non-empty artifact never
\* leaves the empty string.
C8_EmptyRejected ==
    Deobfuscated =>
        /\ (copy.err # "not run" /\ copy.out = <<>>) => err # "nil"
        /\ (arg # <<>> /\ err = "nil") => datum # <<>>

C8_Witness ==
    /\ Deobfuscated
    /\ copy.err \in {"nil", "unexpected EOF"}
    /\ copy.out = <<>>
    /\ err = "empty"

\* C9: deobfuscateData on a non-empty hex artifact whose envelope is shorter
\* than the 12-byte nonce returns an error; it does not panic.
C9_ShortEnvelopeError ==
    (Deobfuscated /\ arg # <<>> /\ hexDecode(arg).err = "nil"
        /\ Len(arg) < 2 * NonceSize)
        => err \notin {"nil", "panic"}

\* C10: when obfuscateData returns an error, or deobfuscateData returns an
\* error of the decryptConfig stage, the caller's value is the empty string.
C10_ValueClearedOnError ==
    /\ (Obfuscated /\ err # "nil") => datum = <<>>
    /\ (Deobfuscated /\ err \in DecryptErrors) => datum = <<>>

C10_Witness ==
    /\ Deobfuscated
    /\ err = "inflate"
    /\ copy.out # <<>>
    /\ arg # <<>>
    /\ datum = <<>>

\* the inputs stay within the stored blocks the zlib reader is modelled for
StoredBlocksOnly == copy.err # "huffman"

====
